---- MODULE Spec2Model ----
(***************************************************************************)
(* A model of suiscan: SuiDataFetcher (src/src/data/fetcher.py) and the    *)
(* demonstration script (src/suiscan/main.py).                             *)
(*                                                                         *)
(* Text is a sequence of one-character strings; the fixed pieces of a      *)
(* query template are single elements of such a sequence.  64-bit         *)
(* integers are kept as decimal digit sequences.  Instants are a pair:     *)
(* whole milliseconds since the epoch and 0..999 microseconds.             *)
(***************************************************************************)
EXTENDS Integers, Sequences, FiniteSets, TLC

\* ------------------------------------------------------------------------
\* Bounds of the model.
\* ------------------------------------------------------------------------
MaxLimit == 2
MaxRows == 2
MaxMs == 2

\* ------------------------------------------------------------------------
\* Decimal integers: [neg, mag], mag a digit sequence without leading zeros.
\* ------------------------------------------------------------------------
DigitChars == <<"0", "1", "2", "3", "4", "5", "6", "7", "8", "9">>

HexChars == DigitChars \o <<"a", "b", "c", "d", "e", "f">>

IsDigit(c) == \E i \in 1..10 : DigitChars[i] = c

IsHexDigit(c) == \E i \in 1..16 : HexChars[i] = c

HexVal(c) == (CHOOSE i \in 1..16 : HexChars[i] = c) - 1

RECURSIVE StripZeros(_)
StripZeros(ds) ==
    IF Len(ds) > 1 /\ ds[1] = 0 THEN StripZeros(Tail(ds)) ELSE ds

\* ds * m + a, for a digit sequence ds and small m, a.
RECURSIVE MulAdd(_, _, _)
MulAdd(ds, m, a) ==
    IF Len(ds) = 0
    THEN IF a = 0 THEN <<>> ELSE MulAdd(<<>>, m, a \div 10) \o <<a % 10>>
    ELSE LET v == ds[Len(ds)] * m + a
         IN  MulAdd(SubSeq(ds, 1, Len(ds) - 1), m, v \div 10) \o <<v % 10>>

RECURSIVE MagOf(_, _, _)
MagOf(s, base, acc) ==
    IF Len(s) = 0 THEN StripZeros(IF Len(acc) = 0 THEN <<0>> ELSE acc)
    ELSE MagOf(Tail(s), base, MulAdd(acc, base, HexVal(s[1])))

RECURSIVE LexLE(_, _)
LexLE(a, b) ==
    \/ Len(a) = 0
    \/ a[1] < b[1]
    \/ a[1] = b[1] /\ LexLE(Tail(a), Tail(b))

MagLE(a, b) == Len(a) < Len(b) \/ (Len(a) = Len(b) /\ LexLE(a, b))

Int64MaxMag == <<9, 2, 2, 3, 3, 7, 2, 0, 3, 6, 8, 5, 4, 7, 7, 5, 8, 0, 7>>

Int64MinMag == <<9, 2, 2, 3, 3, 7, 2, 0, 3, 6, 8, 5, 4, 7, 7, 5, 8, 0, 8>>

InInt64(neg, mag) == MagLE(mag, IF neg THEN Int64MinMag ELSE Int64MaxMag)

MkInt(neg, mag) == [neg |-> neg /\ mag # <<0>>, mag |-> mag]

\* a <= b on [neg, mag] integers.
IntLE(a, b) ==
    IF a.neg # b.neg THEN a.neg
    ELSE IF a.neg THEN MagLE(b.mag, a.mag) ELSE MagLE(a.mag, b.mag)

\* ------------------------------------------------------------------------
\* Nullable column values.
\* ------------------------------------------------------------------------
Null == [isNull |-> TRUE, v |-> <<>>]

Val(x) == [isNull |-> FALSE, v |-> x]

CastFail == [ok |-> FALSE, val |-> Null]

CastOk(x) == [ok |-> TRUE, val |-> x]

\* ------------------------------------------------------------------------
\* String to 64-bit integer conversions.
\* ------------------------------------------------------------------------
AllDigits(s) == Len(s) > 0 /\ \A i \in 1..Len(s) : IsDigit(s[i])

AllHex(s) == Len(s) > 0 /\ \A i \in 1..Len(s) : IsHexDigit(s[i])

Unsigned(s) == IF Len(s) > 0 /\ s[1] = "-" THEN Tail(s) ELSE s

IsNegative(s) == Len(s) > 0 /\ s[1] = "-"

DecimalInt64(s) ==
    LET body == Unsigned(s)
        mag == MagOf(body, 10, <<>>)
    IN  IF AllDigits(body) /\ InInt64(IsNegative(s), mag)
        THEN CastOk(Val(MkInt(IsNegative(s), mag)))
        ELSE CastFail

IsHexLiteral(body) ==
    Len(body) > 2 /\ body[1] = "0" /\ body[2] = "x" /\ AllHex(SubSeq(body, 3, Len(body)))

\* pl.col("balance").cast(pl.Int64): strict, decimal digits with an optional
\* sign; a null stays null.
PolarsCastInt64(b) ==
    IF b.isNull THEN CastOk(Null) ELSE DecimalInt64(b.v)

\* CAST(balance AS INT64) in the remote service: decimal, or a 0x hex
\* literal; a null stays null.
SqlCastInt64(b) ==
    IF b.isNull THEN CastOk(Null)
    ELSE LET body == Unsigned(b.v)
             mag == MagOf(SubSeq(body, 3, Len(body)), 16, <<>>)
         IN  IF IsHexLiteral(body)
             THEN IF InInt64(IsNegative(b.v), mag)
                  THEN CastOk(Val(MkInt(IsNegative(b.v), mag)))
                  ELSE CastFail
             ELSE DecimalInt64(b.v)

\* ------------------------------------------------------------------------
\* balance / 1_000_000_000 as a true division: the decimal point moves nine
\* places, [neg, int, frac] with nine fractional digits.
\* ------------------------------------------------------------------------
SuiDecimals == 9

RECURSIVE Zeros(_)
Zeros(n) == IF n <= 0 THEN <<>> ELSE <<0>> \o Zeros(n - 1)

\* Faulty variant: floor division, the fraction lost.
FloorDivE9(x) ==
    LET padded == Zeros(SuiDecimals + 1 - Len(x.mag)) \o x.mag
    IN  [neg |-> x.neg,
         int |-> SubSeq(padded, 1, Len(padded) - SuiDecimals),
         frac |-> Zeros(SuiDecimals)]

TrueDivE9(x) ==
    LET padded == Zeros(SuiDecimals + 1 - Len(x.mag)) \o x.mag
        cut == Len(padded) - SuiDecimals
    IN  [neg |-> x.neg,
         int |-> SubSeq(padded, 1, cut),
         frac |-> SubSeq(padded, cut + 1, Len(padded))]

\* ------------------------------------------------------------------------
\* Time.  An instant is [ms, us]: whole milliseconds since the epoch (floor)
\* and 0..999 further microseconds.  A days argument is given by the length
\* of time it stands for, [ms, hus]: whole milliseconds and 0..1999 further
\* half-microseconds (days = that length / 86400000 ms).
\* ------------------------------------------------------------------------
UsPerMs == 1000

DayMs == 86400000

Instant(ms, us) == [ms |-> ms + (us \div UsPerMs), us |-> us % UsPerMs]

\* timedelta(days=days): the length in whole microseconds, halves rounded
\* to the even neighbour.
timedelta(days) ==
    LET q == days.hus \div 2
        us == IF days.hus % 2 = 1 /\ q % 2 = 1 THEN q + 1 ELSE q
    IN  Instant(days.ms, us)

\* datetime.now() - timedelta(days=days)
cutoff_date(now, days) ==
    LET td == timedelta(days)
    IN  Instant(now.ms - td.ms, now.us - td.us)

\* int(x): the fraction is dropped, towards zero.
IntTrunc(t) == IF t.ms < 0 /\ t.us > 0 THEN t.ms + 1 ELSE t.ms

\* int(cutoff_date.timestamp() * 1000)
cutoff_timestamp_of(now, days) == IntTrunc(cutoff_date(now, days))

\* ------------------------------------------------------------------------
\* Query Builder.  A query is the template's holes: the table, the WHERE
\* text (for the objects table), the cutoff and the limit.
\* ------------------------------------------------------------------------
SuiCoinType == <<"0x2::sui::SUI">>

RECURSIVE Join(_, _)
Join(sep, strs) ==
    IF Len(strs) = 0 THEN <<>>
    ELSE IF Len(strs) = 1 THEN strs[1]
    ELSE strs[1] \o sep \o Join(sep, Tail(strs))

\* if addresses: ... (None and the empty list are both false)
Truthy(addresses) == addresses.given /\ Len(addresses.list) > 0

where_clause(addresses) ==
    IF Truthy(addresses)
    THEN LET addresses_str == Join(<<"'", ",", " ", "'">>, addresses.list)
         IN  <<"WHERE owner IN (", "'">> \o addresses_str \o <<"'", ")">>
    ELSE <<"WHERE coin_type = ", "'">> \o SuiCoinType \o <<"'">>

NoQuery == [table |-> "", where |-> <<>>, cutoff |-> 0, limit |-> 0]

TransactionsQuery(cutoff, limit) ==
    [table |-> "transactions", where |-> <<>>, cutoff |-> cutoff, limit |-> limit]

BalancesQuery(addresses, limit) ==
    [table |-> "objects", where |-> where_clause(addresses), cutoff |-> 0,
     limit |-> limit]

SummaryQuery(cutoff) ==
    [table |-> "summary", where |-> <<>>, cutoff |-> cutoff, limit |-> 0]

\* ------------------------------------------------------------------------
\* The remote service's reading of the WHERE text: quoted literals run from
\* one quote to the next.  [ok, col, lits]; ok is FALSE for text that is no
\* comparison of a column with one literal or with a list of literals.
\* ------------------------------------------------------------------------
BadWhere == [ok |-> FALSE, col |-> "", lits |-> <<>>]

\* at: "open" (a literal must start), "in" (inside a literal, cur so far),
\* "after" (a literal has closed), "end" (the clause has closed).
RECURSIVE ParseLits(_, _, _, _, _)
ParseLits(text, at, cur, lits, many) ==
    IF Len(text) = 0
    THEN IF at = "end" \/ (at = "after" /\ ~many)
         THEN [ok |-> TRUE, lits |-> lits] ELSE [ok |-> FALSE, lits |-> <<>>]
    ELSE LET c == text[1]
             rest == Tail(text)
         IN  CASE at = "open" ->
                    IF c = "'" THEN ParseLits(rest, "in", <<>>, lits, many)
                    ELSE IF c = " " THEN ParseLits(rest, "open", cur, lits, many)
                    ELSE [ok |-> FALSE, lits |-> <<>>]
               [] at = "in" ->
                    IF c = "'" THEN ParseLits(rest, "after", <<>>, Append(lits, cur), many)
                    ELSE ParseLits(rest, "in", Append(cur, c), lits, many)
               [] at = "after" ->
                    IF many /\ c = "," THEN ParseLits(rest, "open", <<>>, lits, many)
                    ELSE IF many /\ c = ")" THEN ParseLits(rest, "end", <<>>, lits, many)
                    ELSE IF c = " " THEN ParseLits(rest, "after", cur, lits, many)
                    ELSE [ok |-> FALSE, lits |-> <<>>]
               [] OTHER ->
                    IF c = " " THEN ParseLits(rest, "end", cur, lits, many)
                    ELSE [ok |-> FALSE, lits |-> <<>>]

ParseWhere(text) ==
    IF Len(text) = 0 THEN BadWhere
    ELSE LET many == text[1] = "WHERE owner IN ("
             p == ParseLits(Tail(text), "open", <<>>, <<>>, many)
         IN  IF text[1] \notin {"WHERE owner IN (", "WHERE coin_type = "} \/ ~p.ok
             THEN BadWhere
             ELSE [ok |-> TRUE,
                   col |-> IF many THEN "owner" ELSE "coin_type",
                   lits |-> p.lits]

\* ------------------------------------------------------------------------
\* The remote dataset: rows of the transactions and objects tables.
\* ------------------------------------------------------------------------
Tx(digest, ts, sender, gas, success) ==
    [transaction_digest |-> digest, timestamp_ms |-> ts, sender |-> sender,
     gas_used |-> gas, gas_price |-> <<"1">>, success |-> success,
     effects_status |-> IF success = "false" THEN "failure" ELSE "success",
     checkpoint_sequence_number |-> ts \div 1000]

TxPool ==
    { Tx("T1", 2 * DayMs + 50, "s1", <<"1", "0">>, "true"),
      Tx("T2", 2 * DayMs + 50, "s1", <<"3", "0">>, "false"),
      Tx("T3", 3 * DayMs - 1, "s2", <<"2", "0">>, "null"),
      Tx("T4", 3 * DayMs, "s2", <<"7">>, "true"),
      Tx("T5", DayMs, "s1", <<"5">>, "false") }

Obj(id, owner, coin, balance) ==
    [owner |-> owner, coin_type |-> coin, balance |-> balance, object_id |-> id]

OtherCoinType == <<"0x2::other::COIN">>

ObjPool ==
    { Obj("O1", <<"a">>, Val(SuiCoinType),
          Val(<<"5", "0", "0", "0", "0", "0", "0", "0", "0", "0">>)),
      Obj("O2", <<"b">>, Val(SuiCoinType), Val(<<"1", "2">>)),
      Obj("O3", <<"a">>, Val(OtherCoinType), Val(<<"1", "2">>)),
      Obj("O4", <<"A">>, Val(SuiCoinType), Val(<<"0", "x", "1", "f">>)),
      Obj("O5", <<"b">>, Val(SuiCoinType),
          Val(<<"9", "2", "2", "3", "3", "7", "2", "0", "3", "6", "8", "5", "4",
                "7", "7", "5", "8", "0", "8">>)),
      Obj("O6", <<"a">>, Null, Null),
      Obj("O7", <<"A">>, Val(SuiCoinType), Val(<<"-", "7">>)) }

Datasets(pool) == {d \in SUBSET pool : Cardinality(d) <= MaxRows}

\* ------------------------------------------------------------------------
\* Inputs of the calls.
\* ------------------------------------------------------------------------
NoDays == [ms |-> 0, hus |-> 0]

DaysSamples == {NoDays, [ms |-> DayMs, hus |-> 0], [ms |-> 7 * DayMs, hus |-> 0]}

NowSamples ==
    <<[ms |-> 3 * DayMs + 10, us |-> 500],
      [ms |-> 3 * DayMs + 10, us |-> 900],
      [ms |-> 4 * DayMs + 4, us |-> 0]>>

None == [given |-> FALSE, list |-> <<>>]

List(l) == [given |-> TRUE, list |-> l]

AddressArgs ==
    { None,
      List(<<>>),
      List(<< <<"a">> >>),
      List(<< <<"A">> >>),
      List(<< <<"a">>, <<"b">> >>),
      List(<< <<"a", "'", ",", " ", "'", "b">> >>),
      List(<< <<"'">> >>) }

Limits == 1..MaxLimit

NoArgs == [days |-> NoDays, limit |-> 0, addresses |-> None]

\* ------------------------------------------------------------------------
\* Remote Executor: what the service answers to a query.  An answer is
\* [err, rows]; rows that tie on the ORDER BY key come in any order.
\* ------------------------------------------------------------------------
Perms(S) ==
    {p \in [1..Cardinality(S) -> S] : \A x \in S : \E i \in DOMAIN p : p[i] = x}

\* Faulty variant: the cap is off by one.
TakeOneMore(rows, n) == SubSeq(rows, 1, IF n + 1 < Len(rows) THEN n + 1 ELSE Len(rows))

Take(rows, n) == SubSeq(rows, 1, IF n < Len(rows) THEN n ELSE Len(rows))

Answer(rows) == [err |-> "", rows |-> rows]

Rejected(e) == [err |-> e, rows |-> <<>>]

\* Faulty variant: the ORDER BY clause is missing.
ExecTransactionsUnordered(q, table) ==
    LET hit == {r \in table : r.timestamp_ms >= q.cutoff}
    IN  {Answer(Take(p, q.limit)) : p \in Perms(hit)}

\* WHERE timestamp_ms >= cutoff ORDER BY timestamp_ms DESC LIMIT limit
ExecTransactions(q, table) ==
    LET hit == {r \in table : r.timestamp_ms >= q.cutoff}
        sorted == {p \in Perms(hit) :
                     \A i, j \in DOMAIN p :
                        i < j => p[i].timestamp_ms >= p[j].timestamp_ms}
    IN  {Answer(Take(p, q.limit)) : p \in sorted}

\* ORDER BY CAST(balance AS INT64) DESC: nulls are the smallest.
BalanceGE(a, b) ==
    LET x == SqlCastInt64(a.balance).val
        y == SqlCastInt64(b.balance).val
    IN  y.isNull \/ (~x.isNull /\ IntLE(y.v, x.v))

WhereHolds(w, r) ==
    IF w.col = "owner"
    THEN \E i \in DOMAIN w.lits : w.lits[i] = r.owner
    ELSE ~r.coin_type.isNull /\ r.coin_type.v = w.lits[1]

ExecBalances(q, table) ==
    LET w == ParseWhere(q.where)
        hit == {r \in table : WhereHolds(w, r)}
        sorted == {p \in Perms(hit) :
                     \A i, j \in DOMAIN p : i < j => BalanceGE(p[i], p[j])}
    IN  IF ~w.ok THEN {Rejected("Syntax error")}
        ELSE IF \E r \in hit : ~SqlCastInt64(r.balance).ok
        THEN {Rejected("Bad int64 value")}
        ELSE {Answer(Take(p, q.limit)) : p \in sorted}

RECURSIVE ToInt(_)
ToInt(mag) ==
    IF Len(mag) = 0 THEN 0
    ELSE ToInt(SubSeq(mag, 1, Len(mag) - 1)) * 10 + mag[Len(mag)]

RECURSIVE GCD(_, _)
GCD(a, b) == IF b = 0 THEN a ELSE GCD(b, a % b)

\* A floating-point value: a ratio in lowest terms, or nan / inf.
Ratio(a, b) ==
    IF b = 0 THEN [kind |-> IF a = 0 THEN "nan" ELSE "inf", num |-> 0, den |-> 0]
    ELSE [kind |-> "num", num |-> a \div GCD(a, b), den |-> b \div GCD(a, b)]

GasOf(r) ==
    LET x == SqlCastInt64(Val(r.gas_used)).val.v
    IN  IF x.neg THEN 0 - ToInt(x.mag) ELSE ToInt(x.mag)

RECURSIVE SumGas(_)
SumGas(S) ==
    IF S = {} THEN 0
    ELSE LET x == CHOOSE y \in S : TRUE IN GasOf(x) + SumGas(S \ {x})

\* Faulty variant: every transaction not flagged true counts as failed.
SummaryRowElseFailed(d, group) ==
    [date |-> d,
     transaction_count |-> Cardinality(group),
     unique_senders |-> Cardinality({r.sender : r \in group}),
     avg_gas_used |-> Ratio(SumGas(group), Cardinality(group)),
     successful_txns |-> Cardinality({r \in group : r.success = "true"}),
     failed_txns |-> Cardinality({r \in group : r.success # "true"})]

SummaryRow(d, group) ==
    [date |-> d,
     transaction_count |-> Cardinality(group),
     unique_senders |-> Cardinality({r.sender : r \in group}),
     avg_gas_used |-> Ratio(SumGas(group), Cardinality(group)),
     successful_txns |-> Cardinality({r \in group : r.success = "true"}),
     failed_txns |-> Cardinality({r \in group : r.success = "false"})]

\* DATE(TIMESTAMP_MILLIS(timestamp_ms))
DateOf(ts) == ts \div DayMs

ExecSummary(q, table) ==
    LET hit == {r \in table : r.timestamp_ms >= q.cutoff}
        dates == {DateOf(r.timestamp_ms) : r \in hit}
        order == CHOOSE p \in Perms(dates) : \A i, j \in DOMAIN p : i < j => p[i] > p[j]
    IN  IF \E r \in hit : ~SqlCastInt64(Val(r.gas_used)).ok
        THEN {Rejected("Bad int64 value")}
        ELSE {Answer([i \in DOMAIN order |->
                        SummaryRow(order[i],
                                   {r \in hit : DateOf(r.timestamp_ms) = order[i]})])}

\* ------------------------------------------------------------------------
\* Result Transformer: pl.from_arrow and the derived columns.  [err, df].
\* ------------------------------------------------------------------------
\* pl.from_epoch(timestamp_ms, time_unit="ms")
from_epoch(ts) == [date |-> ts \div DayMs, ms_of_day |-> ts % DayMs]

TransformTransactions(arrow) ==
    [err |-> "",
     df |-> [i \in DOMAIN arrow |->
               [timestamp |-> from_epoch(arrow[i].timestamp_ms)] @@ arrow[i]]]

BalanceColumns(r) ==
    LET raw == PolarsCastInt64(r.balance).val
    IN  [balance_raw |-> raw,
         balance_sui |-> IF raw.isNull THEN Null ELSE Val(TrueDivE9(raw.v))] @@ r

TransformBalances(arrow) ==
    IF \E i \in DOMAIN arrow : ~PolarsCastInt64(arrow[i].balance).ok
    THEN [err |-> "conversion failed", df |-> <<>>]
    ELSE [err |-> "", df |-> [i \in DOMAIN arrow |-> BalanceColumns(arrow[i])]]

\* Faulty variant: successful_txns // transaction_count * 100
SuccessRatePctFloorDiv(r) ==
    IF r.transaction_count = 0 THEN Ratio(0, 0)
    ELSE Ratio((r.successful_txns \div r.transaction_count) * 100, 1)

\* successful_txns / transaction_count * 100
SuccessRatePct(r) ==
    LET x == Ratio(r.successful_txns, r.transaction_count)
    IN  IF x.kind = "num" THEN Ratio(x.num * 100, x.den) ELSE x

TransformSummary(arrow) ==
    [err |-> "",
     df |-> [i \in DOMAIN arrow |->
               [success_rate_pct |-> SuccessRatePct(arrow[i])] @@ arrow[i]]]

\* ------------------------------------------------------------------------
\* State.  clock is what datetime.now() reads; transactions and objects are
\* the remote tables; the rest is the call in progress: where it stands
\* (pc), its operation and arguments, its locals, how many queries it has
\* submitted, the failure raised inside it and what it returned.  prev keeps
\* the first call that returned a table.
\* ------------------------------------------------------------------------
VARIABLES clock, transactions, objects, pc, op, args, cutoff_timestamp, query,
          submissions, raised, arrow_table, df, ret, prev,
          cell, fetcher, recent_txns, printed

vars == <<clock, transactions, objects, pc, op, args, cutoff_timestamp, query,
          submissions, raised, arrow_table, df, ret, prev,
          cell, fetcher, recent_txns, printed>>

\* The demonstration script: the cell to run next, whether the names fetcher
\* and recent_txns are bound, and what has been printed.
script == <<cell, fetcher, recent_txns, printed>>

NoScript ==
    /\ cell = "none"
    /\ fetcher = FALSE
    /\ recent_txns = FALSE
    /\ printed = <<>>

dataset == <<transactions, objects>>

call == <<op, args, cutoff_timestamp, query>>

NoRet == [kind |-> "none", err |-> ""]

Table == [kind |-> "table", err |-> ""]

Raise(e) == [kind |-> "raise", err |-> e]

NoPrev == [set |-> FALSE, op |-> "", args |-> NoArgs, cutoff |-> 0, df |-> <<>>]

Idle ==
    /\ pc = "idle"
    /\ op = ""
    /\ args = NoArgs
    /\ cutoff_timestamp = 0
    /\ query = NoQuery
    /\ submissions = 0
    /\ raised = ""
    /\ arrow_table = <<>>
    /\ df = <<>>
    /\ ret = NoRet

\* Either table holds rows.  The objects table has no time column and the
\* balances query reads no clock, so over it the clock stands at its last
\* reading.
Init ==
    /\ \/ /\ clock \in {NowSamples[i] : i \in DOMAIN NowSamples}
          /\ transactions \in Datasets(TxPool)
          /\ objects = {}
       \/ /\ clock = NowSamples[Len(NowSamples)]
          /\ transactions = {}
          /\ objects \in Datasets(ObjPool)
    /\ Idle
    /\ prev = NoPrev
    /\ NoScript

\* Time passes between calls.
Tick ==
    /\ pc = "idle"
    /\ \E i, j \in DOMAIN NowSamples :
          i < j /\ clock = NowSamples[i] /\ clock' = NowSamples[j]
    /\ UNCHANGED <<dataset, pc, call, submissions, raised, arrow_table, df, ret, prev>>
    /\ UNCHANGED script

\* get_recent_transactions, up to the query being built.
GetRecentTransactions ==
    /\ pc = "idle"
    /\ \E days \in DaysSamples, limit \in Limits :
          /\ op' = "get_recent_transactions"
          /\ args' = [days |-> days, limit |-> limit, addresses |-> None]
          /\ cutoff_timestamp' = cutoff_timestamp_of(clock, days)
          /\ query' = TransactionsQuery(cutoff_timestamp_of(clock, days), limit)
    /\ pc' = "built"
    /\ UNCHANGED <<clock, dataset, submissions, raised, arrow_table, df, ret, prev>>
    /\ UNCHANGED script

\* get_wallet_balances, up to the query being built.
GetWalletBalances ==
    /\ pc = "idle"
    /\ \E addresses \in AddressArgs, limit \in Limits :
          /\ op' = "get_wallet_balances"
          /\ args' = [days |-> NoDays, limit |-> limit, addresses |-> addresses]
          /\ query' = BalancesQuery(addresses, limit)
    /\ cutoff_timestamp' = 0
    /\ pc' = "built"
    /\ UNCHANGED <<clock, dataset, submissions, raised, arrow_table, df, ret, prev>>
    /\ UNCHANGED script

\* get_transaction_summary, up to the query being built.
GetTransactionSummary ==
    /\ pc = "idle"
    /\ \E days \in DaysSamples :
          /\ op' = "get_transaction_summary"
          /\ args' = [days |-> days, limit |-> 0, addresses |-> None]
          /\ cutoff_timestamp' = cutoff_timestamp_of(clock, days)
          /\ query' = SummaryQuery(cutoff_timestamp_of(clock, days))
    /\ pc' = "built"
    /\ UNCHANGED <<clock, dataset, submissions, raised, arrow_table, df, ret, prev>>
    /\ UNCHANGED script

Propagate(e) ==
    /\ raised' = e
    /\ ret' = Raise(e)
    /\ pc' = "done"

\* Faulty variant: a failed submission is tried once more.
ClientQueryRetry ==
    /\ pc = "built"
    /\ \/ submissions' = submissions + 1 /\ pc' = "submitted" /\ UNCHANGED <<raised, ret>>
       \/ submissions' = submissions + 2 /\ pc' = "submitted" /\ UNCHANGED <<raised, ret>>
       \/ submissions' = submissions + 2 /\ Propagate("Network unavailable")
    /\ UNCHANGED <<clock, dataset, call, arrow_table, df, prev>>
    /\ UNCHANGED script

\* query_job = self.client.query(query)
ClientQuery ==
    /\ pc = "built"
    /\ submissions' = submissions + 1
    /\ \/ pc' = "submitted" /\ UNCHANGED <<raised, ret>>
       \/ Propagate("Network unavailable")
    /\ UNCHANGED <<clock, dataset, call, arrow_table, df, prev>>
    /\ UNCHANGED script

RemoteAnswers ==
    CASE query.table = "transactions" -> ExecTransactions(query, transactions)
      [] query.table = "objects" -> ExecBalances(query, objects)
      [] OTHER -> ExecSummary(query, transactions)

\* arrow_table = query_job.to_arrow()
ToArrow ==
    /\ pc = "submitted"
    /\ \/ \E a \in RemoteAnswers :
             /\ a.err = ""
             /\ arrow_table' = a.rows
             /\ pc' = "fetched"
             /\ UNCHANGED <<raised, ret>>
       \/ \E a \in RemoteAnswers :
             /\ a.err # ""
             /\ Propagate(a.err)
             /\ UNCHANGED arrow_table
       \/ Propagate("Quota exceeded") /\ UNCHANGED arrow_table
    /\ UNCHANGED <<clock, dataset, call, submissions, df, prev>>
    /\ UNCHANGED script

Transformed ==
    CASE op = "get_recent_transactions" -> TransformTransactions(arrow_table)
      [] op = "get_wallet_balances" -> TransformBalances(arrow_table)
      [] OTHER -> TransformSummary(arrow_table)

\* df = pl.from_arrow(arrow_table); df = df.with_columns(...); return df
Transform ==
    /\ pc = "fetched"
    /\ \/ /\ Transformed.err = ""
          /\ df' = Transformed.df
          /\ ret' = Table
          /\ pc' = "done"
          /\ UNCHANGED raised
       \/ /\ Transformed.err # ""
          /\ Propagate(Transformed.err)
          /\ UNCHANGED df
    /\ UNCHANGED <<clock, dataset, call, submissions, arrow_table, prev>>
    /\ UNCHANGED script

\* The caller has the outcome; the next call starts from scratch.
Finish ==
    /\ pc = "done"
    /\ prev' = IF ~prev.set /\ ret.kind = "table"
               THEN [set |-> TRUE, op |-> op, args |-> args,
                     cutoff |-> cutoff_timestamp, df |-> df]
               ELSE prev
    /\ pc' = "idle"
    /\ op' = ""
    /\ args' = NoArgs
    /\ cutoff_timestamp' = 0
    /\ query' = NoQuery
    /\ submissions' = 0
    /\ raised' = ""
    /\ arrow_table' = <<>>
    /\ df' = <<>>
    /\ ret' = NoRet
    /\ UNCHANGED <<clock, dataset>>
    /\ UNCHANGED script

\* ------------------------------------------------------------------------
\* The demonstration script (main.py).  Each cell wraps its work in
\* try / except Exception and prints either its results or a failure line.
\* ------------------------------------------------------------------------
Printed(step, err) == [step |-> step, failed |-> err # "", err |-> err]

RemoteErrors == {"Network unavailable", "Quota exceeded"}

RunCell(step, next, err) ==
    /\ cell = step
    /\ printed' = Append(printed, Printed(step, err))
    /\ cell' = next

\* What a call on the fetcher can do inside a cell: return (""), raise what
\* the remote service raised, or raise NameError when fetcher is unbound.
CallOutcomes ==
    IF fetcher THEN {""} \cup RemoteErrors ELSE {"NameError"}

InitDemo ==
    /\ clock = NowSamples[1]
    /\ transactions = {}
    /\ objects = {}
    /\ Idle
    /\ prev = NoPrev
    /\ cell = "connect"
    /\ fetcher = FALSE
    /\ recent_txns = FALSE
    /\ printed = <<>>

\* fetcher = create_fetcher()
CellConnect ==
    /\ \E err \in {"", "DefaultCredentialsError"} :
          /\ RunCell("connect", "transactions", err)
          /\ fetcher' = (err = "")
    /\ UNCHANGED <<clock, dataset, pc, call, submissions, raised, arrow_table, df,
                   ret, prev, recent_txns>>

\* Faulty variant: the cell has no try / except, a failure ends the script.
CellTransactionsUncaught ==
    /\ cell = "transactions"
    /\ \E err \in CallOutcomes :
          /\ cell' = IF err = "" THEN "balances" ELSE "aborted"
          /\ printed' = IF err = "" THEN Append(printed, Printed("transactions", err))
                        ELSE printed
          /\ recent_txns' = (err = "")
    /\ UNCHANGED <<clock, dataset, pc, call, submissions, raised, arrow_table, df,
                   ret, prev, fetcher>>

\* recent_txns = fetcher.get_recent_transactions(days=7, limit=20)
CellTransactions ==
    /\ \E err \in CallOutcomes :
          /\ RunCell("transactions", "balances", err)
          /\ recent_txns' = (err = "")
    /\ UNCHANGED <<clock, dataset, pc, call, submissions, raised, arrow_table, df,
                   ret, prev, fetcher>>

\* top_wallets = fetcher.get_wallet_balances(limit=10)
CellBalances ==
    /\ \E err \in CallOutcomes \cup (IF fetcher THEN {"conversion failed"} ELSE {}) :
          RunCell("balances", "summary", err)
    /\ UNCHANGED <<clock, dataset, pc, call, submissions, raised, arrow_table, df,
                   ret, prev, fetcher, recent_txns>>

\* summary = fetcher.get_transaction_summary(days=7); with no rows the
\* overall rate divides by a zero total.
CellSummary ==
    /\ \E err \in CallOutcomes \cup (IF fetcher THEN {"ZeroDivisionError"} ELSE {}) :
          RunCell("summary", "analysis", err)
    /\ UNCHANGED <<clock, dataset, pc, call, submissions, raised, arrow_table, df,
                   ret, prev, fetcher, recent_txns>>

\* gas_analysis = recent_txns.select(...)
CellAnalysis ==
    /\ \E err \in (IF recent_txns THEN {"", "conversion failed"} ELSE {"NameError"}) :
          RunCell("analysis", "final", err)
    /\ UNCHANGED <<clock, dataset, pc, call, submissions, raised, arrow_table, df,
                   ret, prev, fetcher, recent_txns>>

\* The closing cell only prints.
CellFinal ==
    /\ RunCell("final", "end", "")
    /\ UNCHANGED <<clock, dataset, pc, call, submissions, raised, arrow_table, df,
                   ret, prev, fetcher, recent_txns>>

NextDemo ==
    \/ CellConnect
    \/ CellTransactions
    \/ CellBalances
    \/ CellSummary
    \/ CellAnalysis
    \/ CellFinal

\* The interpreter runs the cells in order and does not stop on its own.
SpecDemo == InitDemo /\ [][NextDemo]_vars /\ WF_vars(NextDemo)

\* ------------------------------------------------------------------------
\* The cutoff computation on its own, over clocks around the epoch and day
\* counts down to half a microsecond.
\* ------------------------------------------------------------------------
SubMs == {0, 1, 500, 999}

SubHus == {0, 1, 2, 3, 1000, 1999}

CutoffClocks == {[ms |-> m, us |-> u] : m \in (0 - MaxMs)..MaxMs, u \in SubMs}

CutoffDays == {[ms |-> m, hus |-> h] : m \in 0..MaxMs, h \in SubHus}

InitCutoff ==
    /\ clock \in CutoffClocks
    /\ transactions = {}
    /\ objects = {}
    /\ Idle
    /\ prev = NoPrev
    /\ NoScript

\* cutoff_date = datetime.now() - timedelta(days=days)
\* cutoff_timestamp = int(cutoff_date.timestamp() * 1000)
ComputeCutoff ==
    /\ pc = "idle"
    /\ \E days \in CutoffDays :
          /\ args' = [days |-> days, limit |-> 0, addresses |-> None]
          /\ cutoff_timestamp' = cutoff_timestamp_of(clock, days)
    /\ pc' = "cutoff"
    /\ UNCHANGED <<clock, dataset, op, query, submissions, raised, arrow_table, df,
                   ret, prev, script>>

NextCutoff == ComputeCutoff

SpecCutoff == InitCutoff /\ [][NextCutoff]_vars

Next ==
    \/ Tick
    \/ GetRecentTransactions
    \/ GetWalletBalances
    \/ GetTransactionSummary
    \/ ClientQuery
    \/ ToArrow
    \/ Transform
    \/ Finish

Spec == Init /\ [][Next]_vars
\* ========================================================================
\* The claims.
\* ========================================================================
Returned(o) == pc = "done" /\ op = o /\ ret.kind = "table"

InList(x, l) == \E k \in DOMAIN l : l[k] = x

Descending(rows, GE(_, _)) ==
    \A i, j \in DOMAIN rows : i < j => GE(rows[i], rows[j])

Smaller(a, b) == IF a < b THEN a ELSE b

\* ---- C1 ----------------------------------------------------------------
OwnedBy(addresses) == {r \in objects : InList(r.owner, addresses.list)}

NativeCoins == {r \in objects : ~r.coin_type.isNull /\ r.coin_type.v = SuiCoinType}

Selected(rows, S) ==
    /\ \A i \in DOMAIN rows : \E r \in S : r.object_id = rows[i].object_id
    /\ Len(rows) = Smaller(args.limit, Cardinality(S))

\* C1: a returned balances table holds the rows owned by exactly the
\* supplied addresses whenever a list was supplied (the empty list too), and
\* the native coin's rows only when none was; highest balance first, at most
\* limit rows.
C1_FilterByGivenAddresses ==
    Returned("get_wallet_balances") =>
       /\ IF args.addresses.given
          THEN Selected(df, OwnedBy(args.addresses))
          ELSE Selected(df, NativeCoins)
       /\ Descending(df, BalanceGE)
       /\ Len(df) <= args.limit

\* ---- C2 ----------------------------------------------------------------
\* C2: whatever the address strings, the WHERE text of a built balances
\* query reads back as the same comparison with the supplied strings as its
\* literals, one literal per address; the cutoff and limit holes hold the
\* numbers computed from the arguments.
C2_InjectionSafe ==
    /\ (pc = "built" /\ op = "get_wallet_balances") =>
          LET w == ParseWhere(query.where)
          IN  /\ w.ok
              /\ IF Truthy(args.addresses)
                 THEN w.col = "owner" /\ w.lits = args.addresses.list
                 ELSE w.col = "coin_type" /\ w.lits = <<SuiCoinType>>
              /\ query.limit = args.limit
    /\ (pc = "built" /\ op = "get_recent_transactions") =>
          query.cutoff = cutoff_timestamp /\ query.limit = args.limit
    /\ (pc = "built" /\ op = "get_transaction_summary") =>
          query.cutoff = cutoff_timestamp

\* ---- C3 ----------------------------------------------------------------
\* floor of (now - days) in milliseconds, from the exact length of days.
FloorMs(now, days) ==
    (now.ms - days.ms) + ((2 * now.us - days.hus) \div (2 * UsPerMs))

DaysLE(d, e) == d.ms < e.ms \/ (d.ms = e.ms /\ d.hus <= e.hus)

\* C3: the cutoff is the floor in milliseconds of now minus days, and for a
\* fixed now it does not grow when days grows.
C3_CutoffIsFloor ==
    pc = "cutoff" =>
       /\ cutoff_timestamp = FloorMs(clock, args.days)
       /\ \A d \in CutoffDays :
             DaysLE(args.days, d) => cutoff_timestamp_of(clock, d) <= cutoff_timestamp

\* ---- C4 ----------------------------------------------------------------
SameCallAsPrev ==
    /\ pc = "done"
    /\ ret.kind = "table"
    /\ prev.set
    /\ prev.op = op
    /\ prev.args = args

\* C4 as stated: over an unchanged dataset, a call with the arguments of an
\* earlier call returns the earlier table, whenever the two are made.
C4_SameArgsSameTable == SameCallAsPrev => df = prev.df

InWindow == {r \in transactions : r.timestamp_ms >= cutoff_timestamp}

Matching == {r \in objects : WhereHolds(ParseWhere(query.where), r)}

\* No two rows the query selects share its ORDER BY key.
TieFree ==
    CASE op = "get_recent_transactions" ->
            \A r, t \in InWindow : r.timestamp_ms = t.timestamp_ms => r = t
      [] op = "get_wallet_balances" ->
            \A r, t \in Matching : (BalanceGE(r, t) /\ BalanceGE(t, r)) => r = t
      [] OTHER -> TRUE

\* C4, amended: the two tables are the same when the two calls computed the
\* same cutoff and no two selected rows tie on the ORDER BY key.
C4_SameCutoffSameTable ==
    (SameCallAsPrev /\ prev.cutoff = cutoff_timestamp /\ TieFree) => df = prev.df

\* A second call at a later clock reading, same cutoff, same table.
C4_Witness ==
    /\ SameCallAsPrev
    /\ op = "get_recent_transactions"
    /\ prev.cutoff = cutoff_timestamp
    /\ TieFree
    /\ clock = NowSamples[2]
    /\ Len(df) = 2

\* ---- C5 ----------------------------------------------------------------
\* C5: a call submits one query, never a second; a failure of the
\* submission or of the retrieval is what the call raises, and then no table
\* is returned.
C5_OneQueryNoRecovery ==
    /\ submissions <= 1
    /\ pc \in {"submitted", "fetched", "done"} => submissions = 1
    /\ (pc = "done" /\ raised # "") => (ret = Raise(raised) /\ df = <<>>)
    /\ (pc = "done" /\ ret.kind = "table") => raised = ""
    /\ pc = "done" => ret.kind \in {"table", "raise"}

C5_Witness ==
    /\ pc = "done"
    /\ op = "get_wallet_balances"
    /\ submissions = 1
    /\ ret = Raise("Quota exceeded")

\* ---- C7 ----------------------------------------------------------------
PctOk(r) ==
    r.transaction_count > 0 =>
       /\ r.success_rate_pct.kind = "num"
       /\ r.success_rate_pct.num * r.transaction_count
             = 100 * r.successful_txns * r.success_rate_pct.den

\* C7: a summary over a window without transactions is answered with no
\* rows and the call returns an empty table; the transformer never raises on
\* a summary; every returned row with a positive count carries
\* successful / count * 100.
C7_SummaryNeverDivides ==
    op = "get_transaction_summary" =>
       /\ (pc = "submitted" /\ InWindow = {}) => RemoteAnswers = {Answer(<<>>)}
       /\ pc = "fetched" => Transformed.err = ""
       /\ (pc = "done" /\ raised = "") => ret.kind = "table"
       /\ (pc = "done" /\ ret.kind = "table") =>
             /\ InWindow = {} => df = <<>>
             /\ \A i \in DOMAIN df : PctOk(df[i])

\* An empty summary returned after an earlier summary that had rows.
C7_Witness ==
    /\ Returned("get_transaction_summary")
    /\ transactions # {}
    /\ InWindow = {}
    /\ df = <<>>
    /\ prev.set /\ prev.op = "get_transaction_summary" /\ Len(prev.df) > 0

\* ---- C8 ----------------------------------------------------------------
DayOf(d) == {r \in InWindow : DateOf(r.timestamp_ms) = d}

\* C8: in every summary row successful + failed <= count, with equality
\* exactly when every transaction of the day is flagged true or false.
C8_FlagsWithinCount ==
    Returned("get_transaction_summary") =>
       \A i \in DOMAIN df :
          /\ df[i].successful_txns + df[i].failed_txns <= df[i].transaction_count
          /\ (df[i].successful_txns + df[i].failed_txns = df[i].transaction_count)
                <=> (\A r \in DayOf(df[i].date) : r.success \in {"true", "false"})

C8_Witness ==
    /\ Returned("get_transaction_summary")
    /\ \E i \in DOMAIN df :
          /\ df[i].transaction_count = 2
          /\ df[i].successful_txns + df[i].failed_txns = 1

\* ---- C9 ----------------------------------------------------------------
TimestampGE(a, b) == a.timestamp_ms >= b.timestamp_ms

\* C9: a returned transactions table has at most limit rows, all at or
\* after the cutoff, newest first, and is the remote result row for row
\* with the raw timestamp_ms kept beside the decoded timestamp.
C9_BoundedOrderedUntouched ==
    Returned("get_recent_transactions") =>
       /\ Len(df) <= args.limit
       /\ \A i \in DOMAIN df : df[i].timestamp_ms >= cutoff_timestamp
       /\ Descending(df, TimestampGE)
       /\ Len(df) = Len(arrow_table)
       /\ \A i \in DOMAIN df :
             /\ \A f \in DOMAIN arrow_table[i] : df[i][f] = arrow_table[i][f]
             /\ df[i].timestamp.date * DayMs + df[i].timestamp.ms_of_day
                   = arrow_table[i].timestamp_ms
             /\ arrow_table[i] \in transactions
       /\ \A i, j \in DOMAIN df : df[i] = df[j] => i = j

\* The limit cut rows off.
C9_Witness ==
    /\ Returned("get_recent_transactions")
    /\ Cardinality(InWindow) > args.limit
    /\ Len(df) = args.limit
    /\ args.limit = 1

\* ---- C10 ---------------------------------------------------------------
Unscaled(x) == StripZeros(x.int \o x.frac)

SuiOk(r) ==
    IF r.balance.isNull THEN r.balance_raw.isNull /\ r.balance_sui.isNull
    ELSE /\ DecimalInt64(r.balance.v).ok
         /\ r.balance_raw = DecimalInt64(r.balance.v).val
         /\ ~r.balance_sui.isNull
         /\ Unscaled(r.balance_sui.v) = r.balance_raw.v.mag
         /\ Len(r.balance_sui.v.frac) = SuiDecimals
         /\ r.balance_sui.v.neg = r.balance_raw.v.neg

Five == [neg |-> FALSE, int |-> <<5>>, frac |-> <<0, 0, 0, 0, 0, 0, 0, 0, 0>>]

ScenarioC10 ==
    /\ Returned("get_wallet_balances")
    /\ args.addresses = List(<< <<"a">> >>)
    /\ Cardinality(Matching) = 1
    /\ \A r \in Matching : r.object_id = "O1"

\* C10: every returned balance row carries the integer its balance string
\* spells and that integer over 10^9, fraction kept; the one row of
\* "5000000000" gives 5.0; when a retrieved row's balance spells no decimal
\* 64-bit integer, or a selected row's balance no integer the remote service
\* can cast, the call raises a conversion failure and returns no table.
C10_BalanceColumns ==
    /\ Returned("get_wallet_balances") => \A i \in DOMAIN df : SuiOk(df[i])
    /\ ScenarioC10 => Len(df) = 1 /\ df[1].balance_sui = Val(Five)
    /\ (pc = "done" /\ op = "get_wallet_balances"
          /\ \E i \in DOMAIN arrow_table :
                ~arrow_table[i].balance.isNull
                   /\ ~DecimalInt64(arrow_table[i].balance.v).ok)
       => ret = Raise("conversion failed") /\ df = <<>>
    /\ (pc = "done" /\ op = "get_wallet_balances" /\ ParseWhere(query.where).ok
          /\ raised \notin {"Network unavailable", "Quota exceeded"}
          /\ \E r \in Matching : ~SqlCastInt64(r.balance).ok)
       => ret = Raise("Bad int64 value") /\ df = <<>>

C10_Witness == ScenarioC10 /\ Len(df) = 1 /\ df[1].balance_sui = Val(Five)

\* ---- C6 ----------------------------------------------------------------
Steps == <<"connect", "transactions", "balances", "summary", "analysis", "final", "end">>

Position(c) == CHOOSE i \in DOMAIN Steps : Steps[i] = c

\* The names a cell reads that an earlier cell binds.
Needs(step) ==
    CASE step \in {"transactions", "balances", "summary"} -> {"connect"}
      [] step = "analysis" -> {"transactions"}
      [] OTHER -> {}

FailedStep(step) == \E i \in DOMAIN printed : printed[i].step = step /\ printed[i].failed

\* Every cell before the current one has run, once and in order, and a cell
\* fails for want of a name only if the cell that binds the name failed.
Isolated ==
    /\ cell \in {Steps[i] : i \in DOMAIN Steps}
    /\ Len(printed) = Position(cell) - 1
    /\ \A i \in DOMAIN printed :
          /\ printed[i].step = Steps[i]
          /\ printed[i].err = "NameError" =>
                \E d \in Needs(printed[i].step) : FailedStep(d)
          /\ (\A d \in Needs(printed[i].step) : ~FailedStep(d)) =>
                printed[i].err \in {"", "DefaultCredentialsError", "conversion failed",
                                    "ZeroDivisionError"} \cup RemoteErrors

\* C6: whatever fails, every cell runs, a failing cell prints its failure,
\* a failure reaches a later cell only through a name that cell needs, and
\* the script gets to the end of its last cell.
C6_FailuresIsolated == []Isolated /\ <>(cell = "end")

\* Balances and summary both fail on their own after transactions succeeded,
\* and the analysis still runs.
C6_Witness ==
    /\ cell = "end"
    /\ ~FailedStep("connect")
    /\ ~FailedStep("transactions")
    /\ FailedStep("balances")
    /\ FailedStep("summary")
    /\ ~FailedStep("analysis")
====
